---- MODULE Spec2Model ----
(***************************************************************************)
(* gcpmetrics: the command line of gcpmetrics.py as a state machine.       *)
(* main() parses the command line, resolves the parameters against the     *)
(* local and global configuration files (apply_configs), rewrites them     *)
(* (--infinite, --service, filters, defaults) and calls process(), which   *)
(* runs one operation.  One action per step of main(), in program order.   *)
(*                                                                         *)
(* A Python value is a record [k, n, s]: k its type, n its number (int,    *)
(* bool), s its text (str) as a sequence of tokens, where "," and ":" are  *)
(* tokens of their own ("env:prod" is <<"env", ":", "prod">>).             *)
(***************************************************************************)
EXTENDS Integers, Sequences, FiniteSets, TLC

VARIABLES
    cli,            \* vars(parser.parse_args()): the command line as given
    localFile,      \* the content of the file --config names
    globalFile,     \* the content of global.yaml
    args,           \* args_dict / _ret, mutated in place
    local_config,   \* apply_configs: local_config
    global_config,  \* apply_configs: global_config
    resolution,     \* apply_configs: "pending", "returned" or "failed"
    resource_filter,\* main: resource_filter, the decoded filter
    metric_filter,  \* main: metric_filter, the decoded filter
    call,           \* the arguments main passes to process()
    operation,      \* the operation process() ran
    query,          \* perform_query: the query built
    stdout,         \* what was printed, in order
    stderr,         \* what was written to standard error, in order
    exit_code,      \* the exit code of the run, -1 while it runs
    pc              \* the position of main()

vars == <<cli, localFile, globalFile, args, local_config, global_config,
          resolution, resource_filter, metric_filter, call, operation, query,
          stdout, stderr, exit_code, pc>>

----------------------------------------------------------------------------
(* Bounds of the model. *)

\* YAML numbers range over 0..MaxVal
MaxVal == 1
\* the command lines of SpecRun differ from RunBase in at most MaxChanges options
MaxChanges == 3
\* the table a query returns has 0..MaxRows rows and 1..MaxCols columns
MaxRows == 2
MaxCols == 2
\* --infinite: the days since 2011-10-06 range over 1..MaxDeltaDays
MaxDeltaDays == 1

\* the default alignment period
DefaultAlignPeriod == 300

----------------------------------------------------------------------------
(* Python values. *)

PyNone == [k |-> "none", n |-> 0, s |-> <<>>]
PyInt(i) == [k |-> "int", n |-> i, s |-> <<>>]
PyBool(b) == [k |-> "bool", n |-> IF b THEN 1 ELSE 0, s |-> <<>>]
PyStr(t) == [k |-> "str", n |-> 0, s |-> t]
PyList(t) == [k |-> "list", n |-> 0, s |-> t]
\* a key a mapping does not hold
Absent == [k |-> "absent", n |-> 0, s |-> <<>>]

\* v is None
IsNone(v) == v.k = "none"

\* v == 0: the int 0 and False; never a str, never None
EqZero(v) == v.k \in {"int", "bool"} /\ v.n = 0

\* bool(v), as `if v:` and `not v` take it
Truthy(v) ==
    CASE v.k \in {"none", "absent"} -> FALSE
      [] v.k \in {"int", "bool"} -> v.n # 0
      [] OTHER -> v.s # <<>>

\* the number a numeric token stands for
NumTok == [t \in {"0", "1", "60", "-5"} |->
             CASE t = "0" -> 0 [] t = "1" -> 1 [] t = "60" -> 60 [] OTHER -> 0 - 5]

\* int(v) raises for None and for a str that is no number
IntFails(v) ==
    CASE v.k \in {"int", "bool"} -> FALSE
      [] v.k = "str" -> ~(Len(v.s) = 1 /\ v.s[1] \in DOMAIN NumTok)
      [] OTHER -> TRUE

\* int(v) where it does not raise
IntOf(v) == IF v.k = "str" THEN NumTok[v.s[1]] ELSE v.n

\* '{}'.format(v)
PyFormat(v) ==
    CASE v.k \in {"str", "list"} -> v.s
      [] v.k = "int" -> <<ToString(v.n)>>
      [] v.k = "bool" -> IF v.n = 1 THEN <<"True">> ELSE <<"False">>
      [] OTHER -> <<"None">>

----------------------------------------------------------------------------
(* The parser. *)

Params == {"version", "init_config", "config", "keyfile", "preset", "project",
           "list_resources", "list_metrics", "query", "service", "metric",
           "infinite", "days", "hours", "minutes", "resource_filter",
           "metric_filter", "align", "align_period_seconds", "reduce",
           "reduce_grouping", "iloc00"}

\* the options with action='store_true'
Flags == {"version", "list_resources", "list_metrics", "query", "infinite", "iloc00"}

\* the options with default=0
TimeWindow == {"days", "hours", "minutes"}

\* the options whose value is a number
Numeric == TimeWindow \cup {"align_period_seconds"}

\* the namespace of a command line without options
ParserDefaults == [p \in Params |-> IF p \in TimeWindow THEN PyInt(0) ELSE PyNone]

----------------------------------------------------------------------------
(* Configuration files: top-level entries keyed by parameter name, and     *)
(* entries keyed by preset ID whose value is a mapping, or null.           *)

PresetIds == {"p1"}

EmptyMap == [p \in Params |-> Absent]
NoPreset == [st |-> "absent", m |-> EmptyMap]
NullPreset == [st |-> "null", m |-> EmptyMap]
MapPreset(m) == [st |-> "map", m |-> m]
EmptyLayer == [top |-> EmptyMap, presets |-> [i \in PresetIds |-> NoPreset]]

\* config[preset_id] when preset_id in config, else None (as a null entry)
LookupPreset(config, preset_id) ==
    IF \E i \in PresetIds : preset_id = PyStr(<<i>>) /\ config.presets[i].st # "absent"
    THEN config.presets[CHOOSE i \in PresetIds : preset_id = PyStr(<<i>>)]
    ELSE NullPreset

\* `if preset:` a mapping with at least one key
PresetTruthy(preset) ==
    preset.st = "map" /\ \E p \in Params : preset.m[p] # Absent

----------------------------------------------------------------------------
(* apply_configs: the four passes. *)

\* LocalFill without its `is None` test: the local file overwrites
LocalFillAlways(a, config) ==
    [p \in Params |-> IF config.top[p] # Absent THEN config.top[p] ELSE a[p]]

\* for p in keys: if _ret[p] is None and p in local_config: take it
LocalFill(a, config) ==
    [p \in Params |-> IF IsNone(a[p]) /\ config.top[p] # Absent
                      THEN config.top[p] ELSE a[p]]

\* for p in keys: if _ret[p] is None and p in global_config: take it
GlobalFill(a, config) ==
    [p \in Params |-> IF IsNone(a[p]) /\ config.top[p] # Absent
                      THEN config.top[p] ELSE a[p]]

\* PresetMissing with `or` for `and`: a preset in one file only is missing
PresetMissingEither(local_preset, global_preset) ==
    local_preset.st # "map" \/ global_preset.st # "map"

\* local_preset is None and global_preset is None
PresetMissing(local_preset, global_preset) ==
    local_preset.st # "map" /\ global_preset.st # "map"

\* for p in keys: if _ret[p] is None or _ret[p] == 0, and p in local_preset
LocalPresetFill(a, preset) ==
    [p \in Params |-> IF (IsNone(a[p]) \/ EqZero(a[p])) /\ preset.m[p] # Absent
                      THEN preset.m[p] ELSE a[p]]

\* GlobalPresetFill with the local preset's test: 0 counts as unset
GlobalPresetFillZero(a, preset) ==
    [p \in Params |-> IF (IsNone(a[p]) \/ EqZero(a[p])) /\ preset.m[p] # Absent
                      THEN preset.m[p] ELSE a[p]]

\* for p in keys: if _ret[p] is None and p in global_preset
GlobalPresetFill(a, preset) ==
    [p \in Params |-> IF IsNone(a[p]) /\ preset.m[p] # Absent
                      THEN preset.m[p] ELSE a[p]]

----------------------------------------------------------------------------
(* main: the service shorthand and process_filter. *)

\* 'module_id:{}'.format(service)
ServiceEntry(service) == <<"module_id", ":">> \o PyFormat(service)

\* ServiceAppend with the ',' that separates two filter entries
ServiceAppendComma(filter, append) == filter \o <<",">> \o append

\* resource_filter += append
ServiceAppend(filter, append) == filter \o append

\* s.split(sep)
RECURSIVE Split(_, _)
Split(s, sep) ==
    IF \E i \in 1..Len(s) : s[i] = sep
    THEN LET i == CHOOSE i \in 1..Len(s) :
                    s[i] = sep /\ \A j \in 1..(i - 1) : s[j] # sep
         IN  <<SubSeq(s, 1, i - 1)>> \o Split(SubSeq(s, i + 1, Len(s)), sep)
    ELSE <<s>>

\* s.split(sep, 1)
Split1(s, sep) ==
    IF \E i \in 1..Len(s) : s[i] = sep
    THEN LET i == CHOOSE i \in 1..Len(s) :
                    s[i] = sep /\ \A j \in 1..(i - 1) : s[j] # sep
         IN  <<SubSeq(s, 1, i - 1), SubSeq(s, i + 1, Len(s))>>
    ELSE <<s>>

\* _ret[key] = value on a dict, which keeps the position of a key it holds
DictPut(d, key, value) ==
    IF \E i \in 1..Len(d) : d[i][1] = key
    THEN [d EXCEPT ![CHOOSE i \in 1..Len(d) : d[i][1] = key] = <<key, value>>]
    ELSE Append(d, <<key, value>>)

\* the loop of process_filter over the entries that hold a ':'
RECURSIVE FilterDict(_, _)
FilterDict(entries, d) ==
    IF entries = <<>> THEN d
    ELSE LET kv == Split1(Head(entries), ":")
         IN  FilterDict(Tail(entries), DictPut(d, kv[1], kv[2]))

NoFilter == [present |-> FALSE, raised |-> FALSE, items |-> <<>>]

\* process_filter(_filter): None for a falsy filter; `key, value = ...` raises
\* ValueError for an entry without ':'
process_filter(filter) ==
    IF ~Truthy(filter) THEN NoFilter
    ELSE LET entries == Split(filter.s, ",")
         IN  IF \E i \in 1..Len(entries) : Len(Split1(entries[i], ":")) = 1
             THEN [present |-> FALSE, raised |-> TRUE, items |-> <<>>]
             ELSE [present |-> TRUE, raised |-> FALSE,
                   items |-> FilterDict(entries, <<>>)]

----------------------------------------------------------------------------
(* perform_query. *)

\* NoInterval with < for ==
NoIntervalNegative(days, hours, minutes) == days + hours + minutes < 0

\* (days + hours + minutes) == 0
NoInterval(days, hours, minutes) == days + hours + minutes = 0

NoCall == [project_id |-> PyNone, list_resources |-> PyNone,
           list_metrics |-> PyNone, query |-> PyNone, metric_id |-> PyNone,
           days |-> 0, hours |-> 0, minutes |-> 0,
           resource_filter |-> NoFilter, metric_filter |-> NoFilter,
           align |-> PyNone, align_period_seconds |-> 0, reduce |-> PyNone,
           reduce_grouping |-> PyNone, iloc00 |-> PyNone]

NoQuery == [built |-> FALSE, metric_type |-> PyNone, days |-> 0, hours |-> 0,
            minutes |-> 0, resources |-> <<>>, metrics |-> <<>>,
            aligned |-> FALSE, align |-> PyNone, seconds |-> 0,
            reduced |-> FALSE, reduce |-> PyNone, grouping |-> PyNone,
            executed |-> FALSE]

\* Query(...), select_resources, select_metrics, align, reduce, as_dataframe
BuildQuery(c) ==
    [built |-> TRUE, metric_type |-> c.metric_id,
     days |-> c.days, hours |-> c.hours, minutes |-> c.minutes,
     resources |-> c.resource_filter.items,
     metrics |-> c.metric_filter.items,
     aligned |-> Truthy(c.align),
     align |-> IF Truthy(c.align) THEN c.align ELSE PyNone,
     seconds |-> IF Truthy(c.align) THEN c.align_period_seconds ELSE 0,
     reduced |-> Truthy(c.reduce),
     reduce |-> IF Truthy(c.reduce) THEN c.reduce ELSE PyNone,
     grouping |-> IF Truthy(c.reduce) /\ Truthy(c.reduce_grouping)
                  THEN c.reduce_grouping ELSE PyNone,
     executed |-> TRUE]

\* what perform_query prints before the table
QueryPrints(c) ==
    IF Truthy(c.iloc00) THEN <<>>
    ELSE (IF Truthy(c.align) THEN <<"ALIGN">> ELSE <<>>)
         \o (IF Truthy(c.reduce) THEN <<"REDUCE">> ELSE <<>>)
         \o <<"QUERY">>

----------------------------------------------------------------------------
(* The messages of error(). *)

MsgNoInterval == "error: No time interval specified"
MsgNoMetric == "error: Metric ID is required for query"
MsgNoProject == "error: --project not specified"
MsgNoOperation == "error: No operation specified"
MsgNoPreset == "error: Preset not found"

----------------------------------------------------------------------------
(* How a run ends. *)

\* error(message): the message to standard error, two empty lines and the
\* usage help printed (to standard output), sys.exit(1)
Error(message) ==
    /\ stderr' = Append(stderr, message)
    /\ stdout' = stdout \o <<"", "", "USAGE_HELP">>
    /\ exit_code' = 1
    /\ pc' = "done"

\* an exception nothing catches: the traceback to standard error, exit code 1
Raise(exception) ==
    /\ stderr' = Append(stderr, "Traceback: " \o exception)
    /\ stdout' = stdout
    /\ exit_code' = 1
    /\ pc' = "done"

\* main returns (0 or None): sys.exit gives exit code 0
Return(printed) ==
    /\ stdout' = stdout \o printed
    /\ stderr' = stderr
    /\ exit_code' = 0
    /\ pc' = "done"

----------------------------------------------------------------------------
(* main and apply_configs, step by step. *)

\* main: --version
Version ==
    /\ pc = "main"
    /\ Truthy(args["version"])
    /\ Return(<<"VERSION">>)
    /\ UNCHANGED <<cli, localFile, globalFile, args, local_config, global_config,
                   resolution, resource_filter, metric_filter, call, operation, query>>

\* main: --init-config DIR
InitConfig ==
    /\ pc = "main"
    /\ ~Truthy(args["version"])
    /\ Truthy(args["init_config"])
    /\ Return(<<"INIT_CONFIG">>)
    /\ UNCHANGED <<cli, localFile, globalFile, args, local_config, global_config,
                   resolution, resource_filter, metric_filter, call, operation, query>>

\* apply_configs: global.yaml is loaded, and the --config file when one is named
LoadConfigs ==
    /\ pc = "main"
    /\ ~Truthy(args["version"])
    /\ ~Truthy(args["init_config"])
    /\ global_config' = globalFile
    /\ local_config' = IF Truthy(args["config"]) THEN localFile ELSE EmptyLayer
    /\ pc' = "local"
    /\ UNCHANGED <<cli, localFile, globalFile, args, resolution, resource_filter,
                   metric_filter, call, operation, query, stdout, stderr, exit_code>>

\* apply_configs: the pass over the local file's top-level entries
LocalPass ==
    /\ pc = "local"
    /\ args' = LocalFill(args, local_config)
    /\ pc' = "global"
    /\ UNCHANGED <<cli, localFile, globalFile, local_config, global_config,
                   resolution, resource_filter, metric_filter, call, operation,
                   query, stdout, stderr, exit_code>>

\* apply_configs: the pass over the global file's top-level entries
GlobalPass ==
    /\ pc = "global"
    /\ args' = GlobalFill(args, global_config)
    /\ pc' = "lookup"
    /\ UNCHANGED <<cli, localFile, globalFile, local_config, global_config,
                   resolution, resource_filter, metric_filter, call, operation,
                   query, stdout, stderr, exit_code>>

\* apply_configs: no preset asked for, the preset in neither file, or found
PresetLookup ==
    /\ pc = "lookup"
    /\ IF ~Truthy(args["preset"])
       THEN /\ resolution' = "returned"
            /\ pc' = "resolved"
            /\ UNCHANGED <<stdout, stderr, exit_code>>
       ELSE IF PresetMissing(LookupPreset(local_config, args["preset"]),
                             LookupPreset(global_config, args["preset"]))
       THEN /\ resolution' = "failed"
            /\ Error(MsgNoPreset)
       ELSE /\ resolution' = resolution
            /\ pc' = "local_preset"
            /\ UNCHANGED <<stdout, stderr, exit_code>>
    /\ UNCHANGED <<cli, localFile, globalFile, args, local_config, global_config,
                   resource_filter, metric_filter, call, operation, query>>

\* apply_configs: the pass over the local file's preset
LocalPresetPass ==
    /\ pc = "local_preset"
    /\ LET local_preset == LookupPreset(local_config, args["preset"])
       IN  args' = IF PresetTruthy(local_preset)
                   THEN LocalPresetFill(args, local_preset) ELSE args
    /\ pc' = "global_preset"
    /\ UNCHANGED <<cli, localFile, globalFile, local_config, global_config,
                   resolution, resource_filter, metric_filter, call, operation,
                   query, stdout, stderr, exit_code>>

\* apply_configs: the pass over the global file's preset, and the return
GlobalPresetPass ==
    /\ pc = "global_preset"
    /\ LET global_preset == LookupPreset(global_config, args["preset"])
       IN  args' = IF PresetTruthy(global_preset)
                   THEN GlobalPresetFill(args, global_preset) ELSE args
    /\ resolution' = "returned"
    /\ pc' = "resolved"
    /\ UNCHANGED <<cli, localFile, globalFile, local_config, global_config,
                   resource_filter, metric_filter, call, operation, query,
                   stdout, stderr, exit_code>>

\* main: --infinite sets the window to the days since 2011-10-06
Infinite ==
    /\ pc = "resolved"
    /\ \E delta \in 1..MaxDeltaDays :
          args' = IF Truthy(args["infinite"])
                  THEN [args EXCEPT !["days"] = PyInt(delta),
                                    !["hours"] = PyInt(0),
                                    !["minutes"] = PyInt(0)]
                  ELSE args
    /\ pc' = "service"
    /\ UNCHANGED <<cli, localFile, globalFile, local_config, global_config,
                   resolution, resource_filter, metric_filter, call, operation,
                   query, stdout, stderr, exit_code>>

\* main: --service extends the resource filter; += raises TypeError when the
\* filter is no str
ServiceExtend ==
    /\ pc = "service"
    /\ IF ~Truthy(args["service"])
       THEN /\ args' = args
            /\ pc' = "filters"
            /\ UNCHANGED <<stdout, stderr, exit_code>>
       ELSE IF IsNone(args["resource_filter"])
       THEN /\ args' = [args EXCEPT !["resource_filter"] =
                            PyStr(ServiceEntry(args["service"]))]
            /\ pc' = "filters"
            /\ UNCHANGED <<stdout, stderr, exit_code>>
       ELSE IF args["resource_filter"].k = "str"
       THEN /\ args' = [args EXCEPT !["resource_filter"] =
                            PyStr(ServiceAppend(args["resource_filter"].s,
                                                ServiceEntry(args["service"])))]
            /\ pc' = "filters"
            /\ UNCHANGED <<stdout, stderr, exit_code>>
       ELSE /\ args' = args
            /\ Raise("TypeError")
    /\ UNCHANGED <<cli, localFile, globalFile, local_config, global_config,
                   resolution, resource_filter, metric_filter, call, operation, query>>

\* main: both filters are decoded; .split raises AttributeError on a truthy
\* filter that is no str
ProcessFilters ==
    /\ pc = "filters"
    /\ LET bad(v) == Truthy(v) /\ v.k # "str"
           rf == process_filter(args["resource_filter"])
           mf == process_filter(args["metric_filter"])
       IN  IF bad(args["resource_filter"])
           THEN /\ Raise("AttributeError")
                /\ UNCHANGED <<resource_filter, metric_filter>>
           ELSE IF rf.raised
           THEN /\ Raise("ValueError")
                /\ UNCHANGED <<resource_filter, metric_filter>>
           ELSE IF bad(args["metric_filter"])
           THEN /\ Raise("AttributeError")
                /\ resource_filter' = rf
                /\ UNCHANGED metric_filter
           ELSE IF mf.raised
           THEN /\ Raise("ValueError")
                /\ resource_filter' = rf
                /\ UNCHANGED metric_filter
           ELSE /\ resource_filter' = rf
                /\ metric_filter' = mf
                /\ pc' = "defaults"
                /\ UNCHANGED <<stdout, stderr, exit_code>>
    /\ UNCHANGED <<cli, localFile, globalFile, args, local_config, global_config,
                   resolution, call, operation, query>>

\* main: the default alignment period, and the grouping split on ','
Defaults ==
    /\ pc = "defaults"
    /\ LET a1 == IF IsNone(args["align_period_seconds"])
                 THEN [args EXCEPT !["align_period_seconds"] = PyInt(DefaultAlignPeriod)]
                 ELSE args
           g == args["reduce_grouping"]
       IN  IF Truthy(g) /\ g.k # "str"
           THEN /\ args' = a1
                /\ Raise("AttributeError")
           ELSE /\ args' = IF Truthy(g)
                           THEN [a1 EXCEPT !["reduce_grouping"] = PyList(g.s)]
                           ELSE a1
                /\ pc' = "process"
                /\ UNCHANGED <<stdout, stderr, exit_code>>
    /\ UNCHANGED <<cli, localFile, globalFile, local_config, global_config,
                   resolution, resource_filter, metric_filter, call, operation, query>>

\* main's call of process(): the int() conversions, then process() up to the
\* operation it chooses
Process ==
    /\ pc = "process"
    /\ IF \E p \in Numeric : IntFails(args[p])
       THEN /\ Raise("ValueError")
            /\ UNCHANGED <<call, operation>>
       ELSE /\ call' = [project_id |-> args["project"],
                        list_resources |-> args["list_resources"],
                        list_metrics |-> args["list_metrics"],
                        query |-> args["query"],
                        metric_id |-> args["metric"],
                        days |-> IntOf(args["days"]),
                        hours |-> IntOf(args["hours"]),
                        minutes |-> IntOf(args["minutes"]),
                        resource_filter |-> resource_filter,
                        metric_filter |-> metric_filter,
                        align |-> args["align"],
                        align_period_seconds |-> IntOf(args["align_period_seconds"]),
                        reduce |-> args["reduce"],
                        reduce_grouping |-> args["reduce_grouping"],
                        iloc00 |-> args["iloc00"]]
            /\ IF ~Truthy(args["project"])
               THEN /\ Error(MsgNoProject)
                    /\ UNCHANGED operation
               ELSE IF Truthy(args["list_resources"])
               THEN /\ operation' = "list_resources"
                    /\ Return(<<"RESOURCES">>)
               ELSE IF Truthy(args["list_metrics"])
               THEN /\ operation' = "list_metrics"
                    /\ Return(<<"METRICS">>)
               ELSE IF Truthy(args["query"])
               THEN /\ operation' = "query"
                    /\ pc' = "perform_query"
                    /\ UNCHANGED <<stdout, stderr, exit_code>>
               ELSE /\ Error(MsgNoOperation)
                    /\ UNCHANGED operation
    /\ UNCHANGED <<cli, localFile, globalFile, args, local_config, global_config,
                   resolution, resource_filter, metric_filter, query>>

\* perform_query: the two checks, the query, the table and its printing; the
\* asserts of the iloc00 branch raise AssertionError
PerformQuery ==
    /\ pc = "perform_query"
    /\ IF NoInterval(call.days, call.hours, call.minutes)
       THEN /\ Error(MsgNoInterval)
            /\ UNCHANGED query
       ELSE IF ~Truthy(call.metric_id)
       THEN /\ Error(MsgNoMetric)
            /\ UNCHANGED query
       ELSE /\ query' = BuildQuery(call)
            /\ \E rows \in 0..MaxRows, cols \in 1..MaxCols :
                  IF ~Truthy(call.iloc00)
                  THEN Return(QueryPrints(call) \o <<"TABLE">>)
                  ELSE IF rows = 0
                  THEN Return(<<"0">>)
                  ELSE IF rows = 1 /\ cols = 1
                  THEN Return(<<"CELL">>)
                  ELSE Raise("AssertionError")
    /\ UNCHANGED <<cli, localFile, globalFile, args, local_config, global_config,
                   resolution, resource_filter, metric_filter, call, operation>>

Next ==
    \/ Version
    \/ InitConfig
    \/ LoadConfigs
    \/ LocalPass
    \/ GlobalPass
    \/ PresetLookup
    \/ LocalPresetPass
    \/ GlobalPresetPass
    \/ Infinite
    \/ ServiceExtend
    \/ ProcessFilters
    \/ Defaults
    \/ Process
    \/ PerformQuery

----------------------------------------------------------------------------
(* The inputs: command lines and configuration files. *)

\* a value of option p as a user writes it
Sample(p) ==
    CASE p = "resource_filter" -> <<"env", ":", "prod">>
      [] p = "metric_filter" -> <<"code", ":", "500">>
      [] p = "reduce_grouping" -> <<"a", ",", "b">>
      [] p = "preset" -> <<"p1">>
      [] p = "service" -> <<"api">>
      [] p \in Numeric -> <<"1">>
      [] OTHER -> <<"x">>

\* what the parser gives for option p: True or None for a flag, a str or the
\* default for the others
CliVals(p) ==
    IF p \in Flags THEN {PyNone, PyBool(TRUE)}
    ELSE IF p \in TimeWindow THEN {PyInt(0), PyStr(<<"0">>), PyStr(<<"1">>)}
    ELSE IF p = "preset" THEN {PyNone, PyStr(<<>>), PyStr(<<"p1">>), PyStr(<<"p2">>)}
    ELSE {PyNone, PyStr(Sample(p))}

\* what a YAML file gives for key p
YamlVals(p) ==
    IF p \in Flags THEN {PyBool(FALSE), PyBool(TRUE)}
    ELSE IF p \in Numeric THEN {PyInt(i) : i \in 0..MaxVal}
    ELSE {PyStr(<<>>), PyStr(Sample(p))}

\* the entry of a file under a preset ID, holding at most key p
PresetChoices(p) ==
    {NoPreset, NullPreset}
        \cup {MapPreset([EmptyMap EXCEPT ![p] = v]) : v \in YamlVals(p) \cup {Absent}}

\* gcpmetrics --config c.yaml --project x --query --metric x
BaseCli ==
    [ParserDefaults EXCEPT !["config"] = PyStr(<<"c.yaml">>),
                           !["project"] = PyStr(<<"x">>),
                           !["query"] = PyBool(TRUE),
                           !["metric"] = PyStr(<<"x">>)]

Start ==
    /\ args = cli
    /\ local_config = EmptyLayer
    /\ global_config = EmptyLayer
    /\ resolution = "pending"
    /\ resource_filter = NoFilter
    /\ metric_filter = NoFilter
    /\ call = NoCall
    /\ operation = "none"
    /\ query = NoQuery
    /\ stdout = <<>>
    /\ stderr = <<>>
    /\ exit_code = -1
    /\ pc = "main"

\* Spec: BaseCli with one option f taking every value, on the command line,
\* at the top level of both files and in the preset of both files, with and
\* without --preset
Init ==
    /\ \E f \in Params :
       \E c \in CliVals(f), pr \in {PyNone, PyStr(<<"p1">>)} :
       \E lt \in YamlVals(f) \cup {Absent}, gt \in YamlVals(f) \cup {Absent} :
       \E lp \in PresetChoices(f), gp \in PresetChoices(f) :
          /\ cli = [[BaseCli EXCEPT !["preset"] = pr] EXCEPT ![f] = c]
          /\ localFile = [top |-> [EmptyMap EXCEPT ![f] = lt],
                          presets |-> [i \in PresetIds |-> lp]]
          /\ globalFile = [top |-> [EmptyMap EXCEPT ![f] = gt],
                           presets |-> [i \in PresetIds |-> gp]]
    /\ Start

Spec == Init /\ [][Next]_vars

\* gcpmetrics --config c.yaml --project x --query --metric x --days 1
RunBase == [BaseCli EXCEPT !["days"] = PyStr(<<"1">>)]

\* the options a command line of SpecRun changes, each with its new value
RunChanges ==
    {<<"version", PyBool(TRUE)>>, <<"init_config", PyStr(<<"dir">>)>>,
     <<"config", PyNone>>, <<"keyfile", PyStr(<<"key.json">>)>>,
     <<"preset", PyStr(<<"p1">>)>>, <<"project", PyNone>>,
     <<"list_resources", PyBool(TRUE)>>, <<"list_metrics", PyBool(TRUE)>>,
     <<"query", PyNone>>, <<"service", PyStr(<<"api">>)>>,
     <<"service", PyStr(<<>>)>>,
     <<"metric", PyNone>>, <<"infinite", PyBool(TRUE)>>,
     <<"days", PyInt(0)>>, <<"days", PyStr(<<"0">>)>>,
     <<"hours", PyStr(<<"1">>)>>, <<"minutes", PyStr(<<"x">>)>>,
     <<"resource_filter", PyStr(<<"env", ":", "prod">>)>>,
     <<"resource_filter", PyStr(<<"bad">>)>>,
     <<"resource_filter", PyStr(<<>>)>>,
     <<"metric_filter", PyStr(<<"code", ":", "500", ",", "code", ":", "4", ":", "4">>)>>,
     <<"align", PyStr(<<"ALIGN_SUM">>)>>,
     <<"align_period_seconds", PyStr(<<"0">>)>>,
     <<"align_period_seconds", PyStr(<<"-5">>)>>,
     <<"align_period_seconds", PyStr(<<"60">>)>>,
     <<"reduce", PyStr(<<"REDUCE_SUM">>)>>,
     <<"reduce_grouping", PyStr(<<"a", ",", "b">>)>>,
     <<"iloc00", PyBool(TRUE)>>}

\* the command lines that differ from RunBase in at most k options
RECURSIVE RunClis(_)
RunClis(k) ==
    IF k = 0 THEN {RunBase}
    ELSE LET prev == RunClis(k - 1)
         IN  prev \cup {[a EXCEPT ![c[1]] = c[2]] : a \in prev, c \in RunChanges}

\* a local file: a resource filter, and a preset with a time window
RunLocalFile ==
    [top |-> [EmptyMap EXCEPT !["resource_filter"] = PyStr(<<"zone", ":", "a">>)],
     presets |-> [i \in PresetIds |->
                    MapPreset([EmptyMap EXCEPT !["hours"] = PyInt(1),
                                               !["align"] = PyStr(<<"ALIGN_MEAN">>)])]]

\* a global file: a service, and a preset with an alignment
RunGlobalFile ==
    [top |-> [EmptyMap EXCEPT !["service"] = PyStr(<<"web">>)],
     presets |-> [i \in PresetIds |->
                    MapPreset([EmptyMap EXCEPT !["align_period_seconds"] = PyInt(60),
                                               !["iloc00"] = PyBool(TRUE)])]]

\* SpecRun: the command lines near RunBase, with and without each file's entries
InitRun ==
    /\ cli \in RunClis(MaxChanges)
    /\ localFile \in {EmptyLayer, RunLocalFile}
    /\ globalFile \in {EmptyLayer, RunGlobalFile}
    /\ Start

SpecRun == InitRun /\ [][Next]_vars

----------------------------------------------------------------------------
(* Properties. *)

\* the command line gave option p a value: not None, and for the time window
\* not the default integer 0
CliSupplied(p) == ~IsNone(cli[p]) /\ ~(p \in TimeWindow /\ cli[p] = PyInt(0))

\* the positions of apply_configs' passes
PassPcs == {"local", "global", "lookup", "local_preset", "global_preset"}

\* the file holds an entry under the preset ID
HasKey(config, id) ==
    \E i \in PresetIds : id = PyStr(<<i>>) /\ config.presets[i].st # "absent"

\* the file holds an entry under the preset ID whose value is not null
HasValue(config, id) ==
    \E i \in PresetIds : id = PyStr(<<i>>) /\ config.presets[i].st = "map"

\* the operation selectors that are active
ActiveSelectors == {p \in {"list_resources", "list_metrics", "query"} : Truthy(args[p])}

\* C1: when apply_configs has returned, every option the command line gave a
\* value (not None, and for days/hours/minutes not the default 0) still holds
\* exactly that value, whatever the files and their presets offer for it.
C1_CliValueKept ==
    pc = "resolved" => \A p \in Params : CliSupplied(p) => args[p] = cli[p]

\* C1: all four passes ran over an option the command line set, and both
\* files and both presets offered it another value.
C1_Witness ==
    /\ pc = "resolved"
    /\ \E p \in Params :
          /\ CliSupplied(p)
          /\ args[p] = cli[p]
          /\ local_config.top[p] \notin {Absent, cli[p]}
          /\ global_config.top[p] \notin {Absent, cli[p]}
          /\ local_config.presets["p1"].m[p] \notin {Absent, cli[p]}
          /\ global_config.presets["p1"].m[p] \notin {Absent, cli[p]}
          /\ args["preset"] = PyStr(<<"p1">>)

\* C2: with days, hours and minutes at the command line's default 0 and a
\* preset asked for that holds days: n (n > 0), days is n after resolution
\* when the local file holds that preset, and stays 0 when only the global
\* file holds it.
C2_PresetZeroAsymmetry ==
    (/\ pc = "resolved"
     /\ \A t \in TimeWindow : cli[t] = PyInt(0)
     /\ args["preset"] = PyStr(<<"p1">>))
    => \A n \in 1..MaxVal :
          /\ (/\ local_config.presets["p1"].st = "map"
              /\ local_config.presets["p1"].m["days"] = PyInt(n))
             => args["days"] = PyInt(n)
          /\ (/\ local_config.presets["p1"].st # "map"
              /\ global_config.presets["p1"].st = "map"
              /\ global_config.presets["p1"].m["days"] = PyInt(n))
             => args["days"] = PyInt(0)

\* C2: the preset with days > 0 is in the global file only and days stayed 0.
C2_Witness ==
    /\ pc = "resolved"
    /\ \A t \in TimeWindow : cli[t] = PyInt(0)
    /\ args["preset"] = PyStr(<<"p1">>)
    /\ local_config.presets["p1"].st = "absent"
    /\ global_config.presets["p1"].st = "map"
    /\ \E n \in 1..MaxVal : global_config.presets["p1"].m["days"] = PyInt(n)
    /\ args["days"] = PyInt(0)

\* C2, the local half: the preset with days > 0 is in the local file and
\* days took its value.
C2_WitnessLocal ==
    /\ pc = "resolved"
    /\ \A t \in TimeWindow : cli[t] = PyInt(0)
    /\ args["preset"] = PyStr(<<"p1">>)
    /\ local_config.presets["p1"].st = "map"
    /\ \E n \in 1..MaxVal :
          /\ local_config.presets["p1"].m["days"] = PyInt(n)
          /\ args["days"] = PyInt(n)

\* the value of option p after the two top-level passes
TopLevelValue(p) ==
    IF ~IsNone(cli[p]) THEN cli[p]
    ELSE IF local_config.top[p] \notin {Absent, PyNone} THEN local_config.top[p]
    ELSE IF global_config.top[p] # Absent THEN global_config.top[p]
    ELSE PyNone

\* C3, as stated: resolution fails exactly when a non-empty preset ID is
\* asked for and the ID is a key of neither file.
C3_FailsIffNoKey ==
    resolution # "pending" =>
        (resolution = "failed" <=>
            (/\ Truthy(args["preset"])
             /\ ~HasKey(local_config, args["preset"])
             /\ ~HasKey(global_config, args["preset"])))

\* C3, amended: resolution fails exactly when a non-empty preset ID is asked
\* for and neither file holds a non-null entry (a mapping) under it; without
\* a preset ID resolution returns what the two top-level passes gave; with a
\* mapping under the ID in at least one file it goes on to the preset passes
\* and returns.
C3_FailsIffNoValue ==
    /\ resolution # "pending" =>
          (resolution = "failed" <=>
              (/\ Truthy(args["preset"])
               /\ ~HasValue(local_config, args["preset"])
               /\ ~HasValue(global_config, args["preset"])))
    /\ (pc = "resolved" /\ ~Truthy(args["preset"])) =>
          \A p \in Params : args[p] = TopLevelValue(p)
    /\ (pc \in {"local_preset", "global_preset"}) =>
          (HasValue(local_config, args["preset"])
              \/ HasValue(global_config, args["preset"]))

\* C3: the preset ID is a key of the local file, its entry is null, and
\* resolution failed.
C3_Witness ==
    /\ resolution = "failed"
    /\ stderr = <<MsgNoPreset>>
    /\ exit_code = 1
    /\ HasKey(local_config, args["preset"])
    /\ ~HasValue(local_config, args["preset"])

\* C4: a run that ends in an error writes its message and then the usage
\* help to standard error and exits with 1; every other run exits with 0.
C4_ErrorsEndAlike ==
    pc = "done" =>
        \/ exit_code = 0 /\ stderr = <<>>
        \/ /\ exit_code = 1
           /\ Len(stderr) = 2
           /\ stderr[1] \in {MsgNoPreset, MsgNoProject, MsgNoOperation,
                             MsgNoInterval, MsgNoMetric}
           /\ stderr[2] = "USAGE_HELP"

\* C5: a query that is run with days = hours = minutes = 0 fails with the
\* time-interval error, whatever the other arguments, and no query is built
\* or executed.
C5_ZeroWindowFails ==
    (/\ pc = "done"
     /\ operation = "query"
     /\ call.days = 0 /\ call.hours = 0 /\ call.minutes = 0)
    => /\ exit_code = 1
       /\ stderr = <<MsgNoInterval>>
       /\ query = NoQuery

\* C5: a query with a zero window, without a metric ID, with an alignment and
\* a resource filter, ended in the time-interval error.
C5_Witness ==
    /\ pc = "done"
    /\ operation = "query"
    /\ call.days = 0 /\ call.hours = 0 /\ call.minutes = 0
    /\ ~Truthy(call.metric_id)
    /\ Truthy(call.align)
    /\ call.resource_filter.present
    /\ ~Truthy(args["infinite"])
    /\ stderr = <<MsgNoInterval>>

\* the resource filter string C6 expects from the resolved parameters a
ExpectedFilter(a) ==
    IF ~Truthy(a["service"]) THEN a["resource_filter"]
    ELSE IF IsNone(a["resource_filter"])
    THEN PyStr(<<"module_id", ":">> \o a["service"].s)
    ELSE PyStr(a["resource_filter"].s \o <<"module_id", ":">> \o a["service"].s)

\* C6: the service step turns the resource filter string into
\* "module_id:<service>" when there was none, into the old string directly
\* followed by "module_id:<service>" when there was one, and leaves it alone
\* without a service (a service that is a non-empty string counts as present).
C6_ServiceExtension ==
    [][pc = "service" => args'["resource_filter"] = ExpectedFilter(args)]_vars

\* C6: "env:prod" and service "api" gave "env:prodmodule_id:api".
C6_Witness ==
    /\ pc = "filters"
    /\ args["service"] = PyStr(<<"api">>)
    /\ cli["resource_filter"] = PyStr(<<"env", ":", "prod">>)
    /\ args["resource_filter"] = PyStr(<<"env", ":", "prod", "module_id", ":", "api">>)

\* C7: during resolution, an option that holds a set value (not None, and
\* for days/hours/minutes not 0) is not changed by a later pass.
C7_Monotonic ==
    [][\A p \in Params :
          (/\ pc \in PassPcs
           /\ ~IsNone(args[p])
           /\ ~(p \in TimeWindow /\ EqZero(args[p])))
          => args'[p] = args[p]]_vars

\* C8: after the global pass, every option the command line left unset and
\* the local file's top level does not hold has the global file's top-level
\* value, when the global file holds one; days, hours and minutes included.
C8_GlobalValueTaken ==
    pc = "lookup" =>
        \A p \in Params :
            (/\ ~CliSupplied(p)
             /\ local_config.top[p] = Absent
             /\ global_config.top[p] # Absent)
            => args[p] = global_config.top[p]

\* C9: an operation runs only with exactly one selector active, and a run
\* that reaches process() with a project and no selector ends in the usage
\* error.
C9_ExactlyOneSelector ==
    /\ operation # "none" => Cardinality(ActiveSelectors) = 1
    /\ (/\ pc = "done"
        /\ call # NoCall
        /\ Truthy(call.project_id)
        /\ ActiveSelectors = {})
       => stderr = <<MsgNoOperation>>

\* C10: when a query is built, the alignment period it is given is positive.
C10_PositiveAlignPeriod ==
    query.built =>
        /\ call.align_period_seconds > 0
        /\ query.aligned => query.seconds > 0

====
